---- MODULE Spec2Model ----
(***************************************************************************)
(* Model of the allowlist application bot (src/bot.py): the relational     *)
(* store (new_applications, cooldown_exempt), the eligibility gate of the  *)
(* apply button, the application form, and the approve / decline review    *)
(* handlers.  Every handler is a coroutine; each of its awaits is one      *)
(* step of the model, so that handlers interleave exactly at their         *)
(* suspension points.  Calls to the chat platform (fetch_user, message     *)
(* edit, role grant, channel send, DM) may fail and the model chooses the  *)
(* outcome nondeterministically.  Store queries on the established pool    *)
(* and the replies to an interaction are taken to succeed.                 *)
(***************************************************************************)
EXTENDS Integers, Sequences, FiniteSets, TLC

\* ------------------------------------------------------------------ bounds
MaxApps == 2          \* rows ever inserted into new_applications
MaxTime == 4          \* the clock runs 1..MaxTime
MaxReview == 2        \* approve / decline handlers ever started
MaxIntake == 4        \* apply-button / form handlers ever started
MaxOld == 2           \* applications in the table when the bot starts
MaxGate == 2          \* apply attempts on such a table

\* ----------------------------------------------------------- configuration
\* APPLICATION_COOLDOWN, in clock ticks (the environment sets it; 86400 s by default)
APPLICATION_COOLDOWN == 2
\* COOLDOWN_BYPASS_IDS: the static bypass list
COOLDOWN_BYPASS_IDS == {1}

Users == {1, 2}                 \* applicants (discord user ids)
Mods == {11, 12}                \* reviewers (discord user ids)
BotUser == 99                   \* bot.user
NULL == 0                       \* SQL NULL / Python None for ids and timestamps
None == "None"                  \* Python None for a text
Reasons == {"", "r1"}           \* values of the decline-reason text input
AutoReason == "Automatically declined for being under 18"

VARIABLES
    now,        \* the clock: datetime.now() and the store's NOW()
    apps,       \* table new_applications, a sequence of rows in insertion order
    exempt,     \* table cooldown_exempt, a set of user ids
    forms,      \* forms[u]: ApplicationModal dialogs open at user u
    reviewMsg,  \* reviewMsg[id]: the review message posted for application id
    intake,     \* intake[i]: the i-th apply-button / form handler
    nIntake,    \* handlers started in intake
    review,     \* review[i]: the i-th approve / decline handler
    nReview,    \* handlers started in review
    auditLog,   \* embeds sent to the logs channel
    noticeLog,  \* plain "Could not DM" messages sent to the logs channel
    dmLog,      \* direct-message attempts to applicants
    roleLog,    \* calls of assign_allowlisted_role
    granted,    \* members holding the allowlisted role
    modPosts,   \* number of messages sent to the mod review channel
    logChannel, \* whether bot.get_channel(LOGS_CHANNEL_ID) resolves the logs channel
    boot,       \* main() and wait_for_db(): the process from its start
    ready       \* on_ready(): the restoring of the review views

vars == <<now, apps, exempt, forms, reviewMsg, intake, nIntake, review, nReview,
          auditLog, noticeLog, dmLog, roleLog, granted, modPosts, logChannel,
          boot, ready>>

storeVars == <<apps, exempt>>
effectVars == <<auditLog, noticeLog, dmLog, roleLog, granted>>
intakeVars == <<forms, intake, nIntake, modPosts, logChannel>>
startVars == <<boot, ready>>

\* ------------------------------------------------------------------- store
\* init_db: the row of new_applications as create_application inserts it
NewRow(id, user_id, age, t) ==
    [id |-> id, user_id |-> user_id, age |-> age, status |-> "pending",
     mod_reason |-> None, moderator_id |-> NULL, message_id |-> NULL,
     created_at |-> t, updated_at |-> t, last_application |-> t]

\* get_application: SELECT * FROM new_applications WHERE id = $1
HasApplication(s, application_id) == \E i \in DOMAIN s : s[i].id = application_id
get_application(s, application_id) ==
    s[CHOOSE i \in DOMAIN s : s[i].id = application_id]

\* the update as an upsert: a missing id gets a row
update_application_status_upsert(s, application_id, status, moderator_id, reason, t) ==
    IF \E i \in DOMAIN s : s[i].id = application_id
    THEN [i \in DOMAIN s |->
            IF s[i].id = application_id
            THEN [s[i] EXCEPT !.status = status, !.mod_reason = reason,
                              !.moderator_id = moderator_id, !.updated_at = t]
            ELSE s[i]]
    ELSE Append(s, [id |-> application_id, user_id |-> 2, age |-> 18,
                    status |-> status, mod_reason |-> reason,
                    moderator_id |-> moderator_id, message_id |-> 0,
                    created_at |-> t, updated_at |-> t, last_application |-> t])

\* update_application_status: UPDATE ... SET status, mod_reason, moderator_id,
\* updated_at = NOW() WHERE id = $4 -- no condition on the current status
update_application_status(s, application_id, status, moderator_id, reason, t) ==
    [i \in DOMAIN s |->
        IF s[i].id = application_id
        THEN [s[i] EXCEPT !.status = status, !.mod_reason = reason,
                          !.moderator_id = moderator_id, !.updated_at = t]
        ELSE s[i]]

\* update_application_message_id: UPDATE ... SET message_id = $1 WHERE id = $2
update_application_message_id(s, application_id, message_id) ==
    [i \in DOMAIN s |->
        IF s[i].id = application_id THEN [s[i] EXCEPT !.message_id = message_id]
        ELSE s[i]]

\* create_application: INSERT ... VALUES (..., NOW()) RETURNING id (id SERIAL)
create_application(s, user_id, age, t) ==
    Append(s, NewRow(Len(s) + 1, user_id, age, t))

\* get_user_last_application: SELECT last_application ... WHERE user_id = $1
\* ORDER BY created_at DESC LIMIT 1  (NULL when the user has no row)
UserRows(s, user_id) == {i \in DOMAIN s : s[i].user_id = user_id}

\* the lookup with the order reversed (ORDER BY created_at ASC)
get_user_first_application(s, user_id) ==
    IF UserRows(s, user_id) = {} THEN NULL
    ELSE LET top == CHOOSE i \in UserRows(s, user_id) :
                        \A j \in UserRows(s, user_id) :
                            s[i].created_at <= s[j].created_at
         IN  s[top].last_application

get_user_last_application(s, user_id) ==
    IF UserRows(s, user_id) = {} THEN NULL
    ELSE LET top == CHOOSE i \in UserRows(s, user_id) :
                        \A j \in UserRows(s, user_id) :
                            s[j].created_at <= s[i].created_at
         IN  s[top].last_application

\* the check without the table lookup
is_cooldown_exempt_bypass_only(ex, user_id) == user_id \in COOLDOWN_BYPASS_IDS

\* is_cooldown_exempt: the bypass list first, then the cooldown_exempt table
is_cooldown_exempt(ex, user_id) ==
    \/ user_id \in COOLDOWN_BYPASS_IDS
    \/ user_id \in ex

\* the table as a single slot: an insert replaces what is there
add_cooldown_exempt_replacing(ex, user_id) == {user_id}

\* add_cooldown_exempt: INSERT ... ON CONFLICT (user_id) DO NOTHING
add_cooldown_exempt(ex, user_id) == ex \cup {user_id}

\* remove_cooldown_exempt: DELETE FROM cooldown_exempt WHERE user_id = $1
remove_cooldown_exempt(ex, user_id) == ex \ {user_id}

\* ----------------------------------------------------------------- process
\* wait_for_db(max_retries=5, delay=5)
max_retries == 5

\* main() before its first statement: no pool, the bot not started
Booting ==
    [pc |-> "wait_for_db", retries |-> 0, attempts |-> 0, sleeps |-> 0,
     pool |-> FALSE, connected |-> FALSE, started |-> FALSE]

\* main() inside asyncio.gather(bot.start(...), ...) after one successful
\* create_db_pool()
Running ==
    [pc |-> "running", retries |-> 0, attempts |-> 1, sleeps |-> 0,
     pool |-> TRUE, connected |-> TRUE, started |-> TRUE]

\* on_ready() that has run to its end with no pending application to restore
Restored ==
    [pc |-> "done", pending |-> <<>>, k |-> 1, channel |-> TRUE, conn |-> FALSE,
     restore |-> [id \in 1..MaxApps |-> "none"]]

\* ---------------------------------------------------------------- handlers
\* a handler slot of the review buttons that has not started
IdleReview ==
    [kind |-> "none", pc |-> "idle", app |-> 0, mod |-> NULL, reason |-> None,
     role_assigned |-> FALSE, reply |-> "none"]

\* a handler slot of the apply button / the form that has not started
IdleIntake ==
    [kind |-> "none", pc |-> "idle", user |-> NULL, app |-> 0,
     text |-> <<>>, responses |-> 0, reply |-> "none"]

NoMessage == [posted |-> FALSE, controls |-> FALSE, mark |-> "none"]

Applicant(id) == get_application(apps, id).user_id

\* a click on a button of the review message needs the message and its buttons
CanClick(id) == reviewMsg[id].posted /\ reviewMsg[id].controls

\* Python truthiness of a text: None and "" are false
Truthy(text) == text # None /\ text # ""

Fail(t) == [review EXCEPT ![t].pc = "done", ![t].reply = "error"]
Goto(t, pc) == [review EXCEPT ![t].pc = pc]

\* Reviewers are interchangeable: a reviewer who has not acted yet is taken to
\* be the one with the least unused id.
Reviewers ==
    {m \in Mods : \A m2 \in Mods :
        m2 < m => \E t \in 1..nReview : review[t].mod = m2}

\* ------------------------------------------- ApplicationReviewView.approve
RoleOutcomes == {"not_found", "added", "add_failed"}

\* the click with the status written before the acknowledgment
ApproveClickWritesFirst(id, m) ==
    /\ nReview < MaxReview
    /\ CanClick(id)
    /\ nReview' = nReview + 1
    /\ apps' = update_application_status(apps, id, "approved", m, None, now)
    /\ review' = [review EXCEPT ![nReview + 1] =
                    [IdleReview EXCEPT !.kind = "approve", !.pc = "update",
                                       !.app = id, !.mod = m]]
    /\ UNCHANGED <<startVars, now, exempt, intakeVars, reviewMsg, effectVars>>

\* the click and `await interaction.response.defer(ephemeral=True)`
ApproveClick(id, m) ==
    /\ nReview < MaxReview
    /\ CanClick(id)
    /\ nReview' = nReview + 1
    /\ review' = [review EXCEPT ![nReview + 1] =
                    [IdleReview EXCEPT !.kind = "approve", !.pc = "update",
                                       !.app = id, !.mod = m]]
    /\ UNCHANGED <<startVars, now, storeVars, intakeVars, reviewMsg, effectVars>>

\* await update_application_status(id, status='approved', moderator_id=...)
ApproveUpdate(t) ==
    /\ review[t].kind = "approve" /\ review[t].pc = "update"
    /\ apps' = update_application_status(apps, review[t].app, "approved",
                                         review[t].mod, None, now)
    /\ review' = Goto(t, "get")
    /\ UNCHANGED <<startVars, now, exempt, intakeVars, reviewMsg, nReview, effectVars>>

\* application = await get_application(id); if not application: "not found"
ApproveGet(t) ==
    /\ review[t].kind = "approve" /\ review[t].pc = "get"
    /\ review' = IF HasApplication(apps, review[t].app)
                 THEN [review EXCEPT ![t].pc = "fetch_user"]
                 ELSE [review EXCEPT ![t].pc = "done", ![t].reply = "not_found"]
    /\ UNCHANGED <<startVars, now, storeVars, intakeVars, reviewMsg, nReview, effectVars>>

\* approve with the role grant straight after the user fetch, ahead of the
\* edits of the review message
ApproveFetchUserThenRole(t) ==
    /\ review[t].kind = "approve" /\ review[t].pc = "fetch_user"
    /\ \E ok \in BOOLEAN : review' = IF ok THEN Goto(t, "role") ELSE Fail(t)
    /\ UNCHANGED <<startVars, now, storeVars, intakeVars, reviewMsg, nReview, effectVars>>

\* user = await bot.fetch_user(application['user_id'])
ApproveFetchUser(t) ==
    /\ review[t].kind = "approve" /\ review[t].pc = "fetch_user"
    /\ \E ok \in BOOLEAN : review' = IF ok THEN Goto(t, "edit_view") ELSE Fail(t)
    /\ UNCHANGED <<startVars, now, storeVars, intakeVars, reviewMsg, nReview, effectVars>>

\* self.clear_items(); await interaction.message.edit(view=self)
ApproveEditView(t) ==
    /\ review[t].kind = "approve" /\ review[t].pc = "edit_view"
    /\ \E ok \in BOOLEAN :
        IF ok
        THEN /\ reviewMsg' = [reviewMsg EXCEPT ![review[t].app].controls = FALSE]
             /\ review' = Goto(t, "edit_embed")
        ELSE /\ review' = Fail(t)
             /\ UNCHANGED reviewMsg
    /\ UNCHANGED <<startVars, now, storeVars, intakeVars, nReview, effectVars>>

\* embed.title = "APPROVED - ..."; await interaction.message.edit(embed=embed)
ApproveEditEmbed(t) ==
    /\ review[t].kind = "approve" /\ review[t].pc = "edit_embed"
    /\ \E ok \in BOOLEAN :
        IF ok
        THEN /\ reviewMsg' = [reviewMsg EXCEPT ![review[t].app].mark = "APPROVED"]
             /\ review' = Goto(t, "role")
        ELSE /\ review' = Fail(t)
             /\ UNCHANGED reviewMsg
    /\ UNCHANGED <<startVars, now, storeVars, intakeVars, nReview, effectVars>>

\* assign_allowlisted_role: False when guild, member or role is not found or
\* add_roles raises, True when add_roles succeeded
assign_allowlisted_role(outcome) == outcome = "added"

\* role_assigned = await assign_allowlisted_role(application['user_id'], guild.id)
ApproveRole(t) ==
    /\ review[t].kind = "approve" /\ review[t].pc = "role"
    /\ \E o \in RoleOutcomes :
        /\ roleLog' = roleLog \cup
                {[task |-> t, app |-> review[t].app,
                  user |-> Applicant(review[t].app), outcome |-> o]}
        /\ granted' = IF assign_allowlisted_role(o)
                      THEN granted \cup {Applicant(review[t].app)} ELSE granted
        /\ review' = [review EXCEPT ![t].pc = "log",
                                    ![t].role_assigned = assign_allowlisted_role(o)]
    /\ UNCHANGED <<startVars, now, storeVars, intakeVars, reviewMsg, nReview,
                   auditLog, noticeLog, dmLog>>

\* create_approved_log_embed plus the "Warning" field of the approve handler
ApprovedLogEntry(t) ==
    [task |-> t, kind |-> "approved", app |-> review[t].app,
     user |-> Applicant(review[t].app), mod |-> review[t].mod,
     reason |-> None, warning |-> ~review[t].role_assigned]

\* log_channel = bot.get_channel(LOGS_CHANNEL_ID); if log_channel: send the embed
ApproveLog(t) ==
    /\ review[t].kind = "approve" /\ review[t].pc = "log"
    /\ IF logChannel
       THEN \E ok \in BOOLEAN :
               IF ok
               THEN /\ auditLog' = auditLog \cup {ApprovedLogEntry(t)}
                    /\ review' = Goto(t, "dm")
               ELSE /\ review' = Fail(t)
                    /\ UNCHANGED auditLog
       ELSE /\ review' = Goto(t, "dm")
            /\ UNCHANGED auditLog
    /\ UNCHANGED <<startVars, now, storeVars, intakeVars, reviewMsg, nReview,
                   noticeLog, dmLog, roleLog, granted>>

\* try: await user.send(embed=...) except: log, then the notice if log_channel
ApproveDM(t) ==
    /\ review[t].kind = "approve" /\ review[t].pc = "dm"
    /\ \E ok \in BOOLEAN :
        /\ dmLog' = dmLog \cup
                {[task |-> t, kind |-> "approved", app |-> review[t].app,
                  user |-> Applicant(review[t].app), reason |-> None,
                  role_text |-> review[t].role_assigned, delivered |-> ok]}
        /\ review' = Goto(t, IF ~ok /\ logChannel THEN "dm_notice"
                             ELSE "ack")
    /\ UNCHANGED <<startVars, now, storeVars, intakeVars, reviewMsg, nReview,
                   auditLog, noticeLog, roleLog, granted>>

\* await log_channel.send("Could not DM user ... about their approval.")
ApproveDMNotice(t) ==
    /\ review[t].kind = "approve" /\ review[t].pc = "dm_notice"
    /\ \E ok \in BOOLEAN :
        IF ok
        THEN /\ noticeLog' = noticeLog \cup
                    {[task |-> t, kind |-> "approved", app |-> review[t].app]}
             /\ review' = Goto(t, "ack")
        ELSE /\ review' = Fail(t)
             /\ UNCHANGED noticeLog
    /\ UNCHANGED <<startVars, now, storeVars, intakeVars, reviewMsg, nReview,
                   auditLog, dmLog, roleLog, granted>>

\* await interaction.followup.send("Application approved. Role assigned ... / Failed ...")
ApproveAck(t) ==
    /\ review[t].kind = "approve" /\ review[t].pc = "ack"
    /\ review' = [review EXCEPT ![t].pc = "done",
                    ![t].reply = IF review[t].role_assigned
                                 THEN "approved_role_assigned"
                                 ELSE "approved_role_failed"]
    /\ UNCHANGED <<startVars, now, storeVars, intakeVars, reviewMsg, nReview, effectVars>>

\* ----------------- ApplicationReviewView.decline and DeclineReasonModal
\* the click: modal = DeclineReasonModal(id); await interaction.response.send_modal(modal);
\* the handler then blocks in `await modal.wait()`
DeclineClick(id, m) ==
    /\ nReview < MaxReview
    /\ CanClick(id)
    /\ nReview' = nReview + 1
    /\ review' = [review EXCEPT ![nReview + 1] =
                    [IdleReview EXCEPT !.kind = "decline", !.pc = "wait",
                                       !.app = id, !.mod = m]]
    /\ UNCHANGED <<startVars, now, storeVars, intakeVars, reviewMsg, effectVars>>

\* the reviewer submits the modal: on_submit starts, self.reason = children[0].value
DeclineSubmit(t, r) ==
    /\ review[t].kind = "decline" /\ review[t].pc = "wait"
    /\ review' = [review EXCEPT ![t].pc = "modal_update", ![t].reason = r]
    /\ UNCHANGED <<startVars, now, storeVars, intakeVars, reviewMsg, nReview, effectVars>>

\* an abandonment that is recorded as a decline without a reason
DeclineAbandonRecorded(t) ==
    /\ review[t].kind = "decline" /\ review[t].pc = "wait"
    /\ apps' = update_application_status(apps, review[t].app, "declined",
                                         review[t].mod, None, now)
    /\ review' = Goto(t, "abandoned")
    /\ UNCHANGED <<startVars, now, exempt, intakeVars, reviewMsg, nReview, effectVars>>

\* the reviewer dismisses the modal or never answers it: no event reaches the
\* bot, and the modal (timeout=None) never stops, so modal.wait() stays pending
DeclineAbandon(t) ==
    /\ review[t].kind = "decline" /\ review[t].pc = "wait"
    /\ review' = Goto(t, "abandoned")
    /\ UNCHANGED <<startVars, now, storeVars, intakeVars, reviewMsg, nReview, effectVars>>

\* DeclineReasonModal.on_submit: await update_application_status(id,
\* status='declined', moderator_id=..., reason=self.reason)
ModalUpdate(t) ==
    /\ review[t].kind = "decline" /\ review[t].pc = "modal_update"
    /\ apps' = update_application_status(apps, review[t].app, "declined",
                                         review[t].mod, review[t].reason, now)
    /\ review' = Goto(t, "modal_defer")
    /\ UNCHANGED <<startVars, now, exempt, intakeVars, reviewMsg, nReview, effectVars>>

\* on_submit ends with interaction.response.defer(), the modal stops, and
\* decline resumes: if not modal.reason: return;
\* application = await get_application(id); if not application: "not found"
DeclineGet(t) ==
    /\ review[t].kind = "decline" /\ review[t].pc = "modal_defer"
    /\ review' =
        IF ~Truthy(review[t].reason)
        THEN [review EXCEPT ![t].pc = "done"]
        ELSE IF HasApplication(apps, review[t].app)
             THEN [review EXCEPT ![t].pc = "fetch_user"]
             ELSE [review EXCEPT ![t].pc = "done", ![t].reply = "not_found"]
    /\ UNCHANGED <<startVars, now, storeVars, intakeVars, reviewMsg, nReview, effectVars>>

\* user = await bot.fetch_user(application['user_id'])
DeclineFetchUser(t) ==
    /\ review[t].kind = "decline" /\ review[t].pc = "fetch_user"
    /\ \E ok \in BOOLEAN : review' = IF ok THEN Goto(t, "edit_view") ELSE Fail(t)
    /\ UNCHANGED <<startVars, now, storeVars, intakeVars, reviewMsg, nReview, effectVars>>

\* self.clear_items(); await interaction.message.edit(view=self)
DeclineEditView(t) ==
    /\ review[t].kind = "decline" /\ review[t].pc = "edit_view"
    /\ \E ok \in BOOLEAN :
        IF ok
        THEN /\ reviewMsg' = [reviewMsg EXCEPT ![review[t].app].controls = FALSE]
             /\ review' = Goto(t, "edit_embed")
        ELSE /\ review' = Fail(t)
             /\ UNCHANGED reviewMsg
    /\ UNCHANGED <<startVars, now, storeVars, intakeVars, nReview, effectVars>>

\* embed.title = "DECLINED - ..."; Reason field; await interaction.message.edit(embed=embed)
DeclineEditEmbed(t) ==
    /\ review[t].kind = "decline" /\ review[t].pc = "edit_embed"
    /\ \E ok \in BOOLEAN :
        IF ok
        THEN /\ reviewMsg' = [reviewMsg EXCEPT ![review[t].app].mark = "DECLINED"]
             /\ review' = Goto(t, "log")
        ELSE /\ review' = Fail(t)
             /\ UNCHANGED reviewMsg
    /\ UNCHANGED <<startVars, now, storeVars, intakeVars, nReview, effectVars>>

\* create_declined_log_embed(user, moderator, reason): the Reason field only
\* when the reason is truthy
create_declined_log_embed(t, app, user, moderator, reason) ==
    [task |-> t, kind |-> "declined", app |-> app, user |-> user,
     mod |-> moderator, reason |-> IF Truthy(reason) THEN reason ELSE None,
     warning |-> FALSE]

\* log_channel = bot.get_channel(LOGS_CHANNEL_ID); if log_channel: send the embed
DeclineLog(t) ==
    /\ review[t].kind = "decline" /\ review[t].pc = "log"
    /\ IF logChannel
       THEN \E ok \in BOOLEAN :
               IF ok
               THEN /\ auditLog' = auditLog \cup
                           {create_declined_log_embed(t, review[t].app,
                               Applicant(review[t].app), review[t].mod,
                               review[t].reason)}
                    /\ review' = Goto(t, "dm")
               ELSE /\ review' = Fail(t)
                    /\ UNCHANGED auditLog
       ELSE /\ review' = Goto(t, "dm")
            /\ UNCHANGED auditLog
    /\ UNCHANGED <<startVars, now, storeVars, intakeVars, reviewMsg, nReview,
                   noticeLog, dmLog, roleLog, granted>>

\* try: await user.send(embed=user_embed with the Reason field) except: log,
\* then the notice if log_channel
DeclineDM(t) ==
    /\ review[t].kind = "decline" /\ review[t].pc = "dm"
    /\ \E ok \in BOOLEAN :
        /\ dmLog' = dmLog \cup
                {[task |-> t, kind |-> "declined", app |-> review[t].app,
                  user |-> Applicant(review[t].app),
                  reason |-> IF Truthy(review[t].reason) THEN review[t].reason
                             ELSE None,
                  role_text |-> FALSE, delivered |-> ok]}
        /\ review' = Goto(t, IF ~ok /\ logChannel THEN "dm_notice"
                             ELSE "ack")
    /\ UNCHANGED <<startVars, now, storeVars, intakeVars, reviewMsg, nReview,
                   auditLog, noticeLog, roleLog, granted>>

\* await log_channel.send("Could not DM user ... about their decline.")
DeclineDMNotice(t) ==
    /\ review[t].kind = "decline" /\ review[t].pc = "dm_notice"
    /\ \E ok \in BOOLEAN :
        IF ok
        THEN /\ noticeLog' = noticeLog \cup
                    {[task |-> t, kind |-> "declined", app |-> review[t].app]}
             /\ review' = Goto(t, "ack")
        ELSE /\ review' = Fail(t)
             /\ UNCHANGED noticeLog
    /\ UNCHANGED <<startVars, now, storeVars, intakeVars, reviewMsg, nReview,
                   auditLog, dmLog, roleLog, granted>>

\* await interaction.followup.send("Application declined.")
DeclineAck(t) ==
    /\ review[t].kind = "decline" /\ review[t].pc = "ack"
    /\ review' = [review EXCEPT ![t].pc = "done", ![t].reply = "declined"]
    /\ UNCHANGED <<startVars, now, storeVars, intakeVars, reviewMsg, nReview, effectVars>>

\* ------------------------------------------------------------ review system
ReviewTasks == 1..MaxReview

ReviewStep ==
    \/ \E id \in 1..MaxApps, m \in Reviewers : ApproveClick(id, m)
    \/ \E t \in ReviewTasks : ApproveUpdate(t)
    \/ \E t \in ReviewTasks : ApproveGet(t)
    \/ \E t \in ReviewTasks : ApproveFetchUser(t)
    \/ \E t \in ReviewTasks : ApproveEditView(t)
    \/ \E t \in ReviewTasks : ApproveEditEmbed(t)
    \/ \E t \in ReviewTasks : ApproveRole(t)
    \/ \E t \in ReviewTasks : ApproveLog(t)
    \/ \E t \in ReviewTasks : ApproveDM(t)
    \/ \E t \in ReviewTasks : ApproveDMNotice(t)
    \/ \E t \in ReviewTasks : ApproveAck(t)
    \/ \E id \in 1..MaxApps, m \in Reviewers : DeclineClick(id, m)
    \/ \E t \in ReviewTasks, r \in Reasons : DeclineSubmit(t, r)
    \/ \E t \in ReviewTasks : DeclineAbandon(t)
    \/ \E t \in ReviewTasks : ModalUpdate(t)
    \/ \E t \in ReviewTasks : DeclineGet(t)
    \/ \E t \in ReviewTasks : DeclineFetchUser(t)
    \/ \E t \in ReviewTasks : DeclineEditView(t)
    \/ \E t \in ReviewTasks : DeclineEditEmbed(t)
    \/ \E t \in ReviewTasks : DeclineLog(t)
    \/ \E t \in ReviewTasks : DeclineDM(t)
    \/ \E t \in ReviewTasks : DeclineDMNotice(t)
    \/ \E t \in ReviewTasks : DeclineAck(t)

\* the state after two applications were submitted and the first one was
\* posted for review (the second is not posted yet)
PostedMessage == [posted |-> TRUE, controls |-> TRUE, mark |-> "none"]

ReviewInit ==
    /\ now = 2
    /\ apps = <<[NewRow(1, 2, 21, 1) EXCEPT !.message_id = 1],
                NewRow(2, 1, 18, 2)>>
    /\ exempt = {}
    /\ forms = [u \in Users |-> 0]
    /\ reviewMsg = [id \in 1..MaxApps |-> IF id = 1 THEN PostedMessage ELSE NoMessage]
    /\ intake = [t \in 1..MaxIntake |-> IdleIntake]
    /\ nIntake = 0
    /\ review = [t \in ReviewTasks |-> IdleReview]
    /\ nReview = 0
    /\ auditLog = {} /\ noticeLog = {} /\ dmLog = {} /\ roleLog = {}
    /\ granted = {}
    /\ modPosts = 1
    /\ logChannel \in BOOLEAN
    /\ boot = Running /\ ready = Restored

SpecReview == ReviewInit /\ [][ReviewStep]_vars

\* the state in which application 2 was posted for review and its row has
\* since left the table (deleted by hand in the database): the review message
\* and its buttons are still there
OrphanInit ==
    /\ now = 2
    /\ apps = <<[NewRow(1, 2, 21, 1) EXCEPT !.message_id = 1]>>
    /\ exempt = {}
    /\ forms = [u \in Users |-> 0]
    /\ reviewMsg = [id \in 1..MaxApps |-> IF id <= 2 THEN PostedMessage ELSE NoMessage]
    /\ intake = [t \in 1..MaxIntake |-> IdleIntake]
    /\ nIntake = 0
    /\ review = [t \in ReviewTasks |-> IdleReview]
    /\ nReview = 0
    /\ auditLog = {} /\ noticeLog = {} /\ dmLog = {} /\ roleLog = {}
    /\ granted = {}
    /\ modPosts = 2
    /\ logChannel = TRUE
    /\ boot = Running /\ ready = Restored

SpecOrphan == OrphanInit /\ [][ReviewStep]_vars

\* ------------------------------------------------ the clock and commands
Tick ==
    /\ now < MaxTime
    /\ now' = now + 1
    /\ UNCHANGED <<startVars, storeVars, intakeVars, reviewMsg, review, nReview,
                   effectVars>>

\* str.lower() on the action words the command is given
Lower(a) ==
    CASE a = "ADD" -> "add"
      [] a = "Revoke" -> "revoke"
      [] OTHER -> a

ActionWords == {"add", "ADD", "grant", "remove", "Revoke", "list"}

\* !cooldown_exempt <user> <action>: outside the management channel and
\* without administrator permission the command only answers
cooldown_exempt(u, action, allowed) ==
    /\ exempt' =
        IF ~allowed THEN exempt
        ELSE IF Lower(action) \in {"add", "grant"} THEN add_cooldown_exempt(exempt, u)
        ELSE IF Lower(action) \in {"remove", "revoke"}
             THEN remove_cooldown_exempt(exempt, u)
        ELSE exempt
    /\ exempt' # exempt
    /\ UNCHANGED <<startVars, now, apps, intakeVars, reviewMsg, review, nReview, effectVars>>

\* ------------------------------------ ApplicationButtonView.apply_button
\* the click with the exemption cached: a user who was given the form at an
\* earlier click is taken to be exempt still
ApplyClickCached(u) ==
    /\ nIntake < MaxIntake
    /\ nIntake' = nIntake + 1
    /\ IF \/ is_cooldown_exempt(exempt, u)
          \/ \E t \in 1..nIntake :
                intake[t].kind = "apply" /\ intake[t].user = u
                    /\ intake[t].reply = "modal"
       THEN /\ intake' = [intake EXCEPT ![nIntake + 1] =
                    [IdleIntake EXCEPT !.kind = "apply", !.pc = "done", !.user = u,
                                       !.responses = 1, !.reply = "modal"]]
            /\ forms' = [forms EXCEPT ![u] = @ + 1]
       ELSE /\ intake' = [intake EXCEPT ![nIntake + 1] =
                    [IdleIntake EXCEPT !.kind = "apply", !.pc = "last", !.user = u]]
            /\ UNCHANGED forms
    /\ UNCHANGED <<startVars, now, storeVars, modPosts, logChannel, reviewMsg, review,
                   nReview, effectVars>>

\* the click and `await is_cooldown_exempt(user.id)`: an exempt user gets the
\* form at once (send_modal), any other goes on to the last-application lookup
ApplyClick(u) ==
    /\ nIntake < MaxIntake
    /\ nIntake' = nIntake + 1
    /\ IF is_cooldown_exempt(exempt, u)
       THEN /\ intake' = [intake EXCEPT ![nIntake + 1] =
                    [IdleIntake EXCEPT !.kind = "apply", !.pc = "done", !.user = u,
                                       !.responses = 1, !.reply = "modal"]]
            /\ forms' = [forms EXCEPT ![u] = @ + 1]
       ELSE /\ intake' = [intake EXCEPT ![nIntake + 1] =
                    [IdleIntake EXCEPT !.kind = "apply", !.pc = "last", !.user = u]]
            /\ UNCHANGED forms
    /\ UNCHANGED <<startVars, now, storeVars, modPosts, logChannel, reviewMsg, review, nReview,
                   effectVars>>

\* the test of apply_button: last_app and
\* (datetime.now() - last_app).total_seconds() < APPLICATION_COOLDOWN
InCooldown(last_app, t) == last_app # NULL /\ t - last_app < APPLICATION_COOLDOWN

\* the lookup with a gate on the pending count: an applicant with a pending
\* application is denied
ApplyLastPendingGated(t) ==
    /\ intake[t].kind = "apply" /\ intake[t].pc = "last"
    /\ LET last_app == get_user_last_application(apps, intake[t].user) IN
        IF \/ InCooldown(last_app, now)
           \/ \E i \in UserRows(apps, intake[t].user) : apps[i].status = "pending"
        THEN /\ intake' = [intake EXCEPT ![t].pc = "done", ![t].responses = 1,
                              ![t].reply = "cooldown"]
             /\ UNCHANGED forms
        ELSE /\ intake' = [intake EXCEPT ![t].pc = "done", ![t].responses = 1,
                              ![t].reply = "modal"]
             /\ forms' = [forms EXCEPT ![intake[t].user] = @ + 1]
    /\ UNCHANGED <<startVars, now, storeVars, nIntake, modPosts, logChannel, reviewMsg,
                   review, nReview, effectVars>>

\* last_app = await get_user_last_application(user.id); inside the cooldown the
\* reply is the "once in 24 hours" message, otherwise the form (send_modal)
ApplyLast(t) ==
    /\ intake[t].kind = "apply" /\ intake[t].pc = "last"
    /\ LET last_app == get_user_last_application(apps, intake[t].user) IN
        IF InCooldown(last_app, now)
        THEN /\ intake' = [intake EXCEPT ![t].pc = "done", ![t].responses = 1,
                              ![t].reply = "cooldown"]
             /\ UNCHANGED forms
        ELSE /\ intake' = [intake EXCEPT ![t].pc = "done", ![t].responses = 1,
                              ![t].reply = "modal"]
             /\ forms' = [forms EXCEPT ![intake[t].user] = @ + 1]
    /\ UNCHANGED <<startVars, now, storeVars, nIntake, modPosts, logChannel, reviewMsg, review,
                   nReview, effectVars>>

\* ------------------------------------------- ApplicationModal.on_submit
\* the Age field as typed: a sequence of characters
AgeInputs == {<<"1", "7">>, <<"1", "8">>, <<"x">>, <<"-", "1">>}

Digits == {"0", "1", "2", "3", "4", "5", "6", "7", "8", "9"}
DigitVal(c) ==
    CASE c = "0" -> 0 [] c = "1" -> 1 [] c = "2" -> 2 [] c = "3" -> 3
      [] c = "4" -> 4 [] c = "5" -> 5 [] c = "6" -> 6 [] c = "7" -> 7
      [] c = "8" -> 8 [] c = "9" -> 9

RECURSIVE DigitsVal(_)
DigitsVal(text) ==
    IF text = <<>> THEN 0
    ELSE 10 * DigitsVal(SubSeq(text, 1, Len(text) - 1)) + DigitVal(text[Len(text)])

AllDigits(text) == text # <<>> /\ \A i \in DOMAIN text : text[i] \in Digits

\* int(value): an optional sign and decimal digits, ValueError otherwise
IntOk(text) ==
    \/ AllDigits(text)
    \/ Len(text) > 1 /\ text[1] \in {"-", "+"} /\ AllDigits(Tail(text))
IntVal(text) ==
    IF text[1] = "-" THEN 0 - DigitsVal(Tail(text))
    ELSE IF text[1] = "+" THEN DigitsVal(Tail(text))
    ELSE DigitsVal(text)

\* the age gate one year too low
UnderageBelow17(age) == age < 17

\* the age gate of on_submit: if age < 18
Underage(age) == age < 18

IntakeId(t) == 100 + t      \* handler ids of intake in the logs

\* the form handler that stores the application before it reads the age: a
\* non-numeric age leaves a row behind
FormSubmitStoresFirst(u, text) ==
    /\ nIntake < MaxIntake
    /\ nIntake' = nIntake + 1
    /\ forms[u] > 0
    /\ forms' = [forms EXCEPT ![u] = @ - 1]
    /\ Len(apps) < MaxApps
    /\ apps' = create_application(apps, u, IF IntOk(text) THEN IntVal(text) ELSE 18, now)
    /\ intake' = [intake EXCEPT ![nIntake + 1] =
            [IdleIntake EXCEPT !.kind = "form", !.user = u, !.text = text,
                               !.pc = IF IntOk(text) THEN "respond" ELSE "done",
                               !.app = IF IntOk(text) THEN Len(apps) + 1 ELSE 0,
                               !.responses = IF IntOk(text) THEN 0 ELSE 1,
                               !.reply = IF IntOk(text) THEN "none" ELSE "invalid_age"]]
    /\ UNCHANGED <<startVars, now, exempt, modPosts, logChannel, reviewMsg, review,
                   nReview, effectVars>>

\* the form is submitted.  age = int(...): ValueError -> "valid number" reply;
\* age < 18 -> the decline reply, then the log entry if the logs channel
\* resolves; otherwise app_id = await create_application(app_data)
FormSubmit(u, text) ==
    /\ nIntake < MaxIntake
    /\ nIntake' = nIntake + 1
    /\ forms[u] > 0
    /\ forms' = [forms EXCEPT ![u] = @ - 1]
    /\ LET this == [IdleIntake EXCEPT !.kind = "form", !.user = u, !.text = text] IN
        IF ~IntOk(text)
        THEN /\ intake' = [intake EXCEPT ![nIntake + 1] =
                    [this EXCEPT !.pc = "done", !.responses = 1,
                                 !.reply = "invalid_age"]]
             /\ UNCHANGED apps
        ELSE IF Underage(IntVal(text))
        THEN /\ intake' = [intake EXCEPT ![nIntake + 1] =
                    [this EXCEPT !.pc = IF logChannel THEN "under18_log" ELSE "done",
                                 !.responses = 1, !.reply = "under18"]]
             /\ UNCHANGED apps
        ELSE /\ Len(apps) < MaxApps
             /\ apps' = create_application(apps, u, IntVal(text), now)
             /\ intake' = [intake EXCEPT ![nIntake + 1] =
                    [this EXCEPT !.pc = "respond", !.app = Len(apps) + 1]]
    /\ UNCHANGED <<startVars, now, exempt, modPosts, logChannel, reviewMsg, review, nReview,
                   effectVars>>

\* await log_channel.send(embed=create_declined_log_embed(user, bot.user,
\* "Automatically declined for being under 18")); when the send raises, the
\* handler's `except Exception` answers the interaction a second time
Under18Log(t) ==
    /\ intake[t].kind = "form" /\ intake[t].pc = "under18_log"
    /\ \E ok \in BOOLEAN :
        IF ok
        THEN /\ auditLog' = auditLog \cup
                    {create_declined_log_embed(IntakeId(t), 0, intake[t].user,
                                               BotUser, AutoReason)}
             /\ intake' = [intake EXCEPT ![t].pc = "done"]
        ELSE /\ intake' = [intake EXCEPT ![t].pc = "done",
                                         ![t].responses = @ + 1]
             /\ UNCHANGED auditLog
    /\ UNCHANGED <<startVars, now, storeVars, forms, nIntake, modPosts, logChannel, reviewMsg,
                   review, nReview, noticeLog, dmLog, roleLog, granted>>

\* await interaction.response.send_message("Application Submitted"), then
\* send_to_mod_channel: without the mod review channel it returns at once
FormRespond(t) ==
    /\ intake[t].kind = "form" /\ intake[t].pc = "respond"
    /\ \E mod_channel \in BOOLEAN :
        intake' = [intake EXCEPT ![t].pc = IF mod_channel THEN "post" ELSE "done",
                                 ![t].responses = 1, ![t].reply = "submitted"]
    /\ UNCHANGED <<startVars, now, storeVars, forms, nIntake, modPosts, logChannel, reviewMsg,
                   review, nReview, effectVars>>

\* send_to_mod_channel: application = await get_application(id);
\* message = await mod_channel.send(embed=embed, view=ApplicationReviewView(id));
\* when the send raises, `except Exception` answers the interaction again
FormPost(t) ==
    /\ intake[t].kind = "form" /\ intake[t].pc = "post"
    /\ \E ok \in BOOLEAN :
        IF ok /\ HasApplication(apps, intake[t].app)
        THEN /\ reviewMsg' = [reviewMsg EXCEPT ![intake[t].app] =
                                [posted |-> TRUE, controls |-> TRUE, mark |-> "none"]]
             /\ modPosts' = modPosts + 1
             /\ intake' = [intake EXCEPT ![t].pc = "message_id"]
        ELSE /\ intake' = [intake EXCEPT ![t].pc = "done",
                              ![t].responses = IF ok THEN @ ELSE @ + 1]
             /\ UNCHANGED <<reviewMsg, modPosts>>
    /\ UNCHANGED <<startVars, now, storeVars, forms, nIntake, logChannel, review, nReview,
                   effectVars>>

\* await update_application_message_id(application_id, message.id)
FormMessageId(t) ==
    /\ intake[t].kind = "form" /\ intake[t].pc = "message_id"
    /\ apps' = update_application_message_id(apps, intake[t].app, intake[t].app)
    /\ intake' = [intake EXCEPT ![t].pc = "done"]
    /\ UNCHANGED <<startVars, now, exempt, forms, nIntake, modPosts, logChannel, reviewMsg,
                   review, nReview, effectVars>>

\* ------------------------------------------------------------ intake system
IntakeTasks == 1..MaxIntake

IntakeStep ==
    \/ Tick
    \/ \E u \in Users \ COOLDOWN_BYPASS_IDS, a \in ActionWords, allowed \in BOOLEAN :
            cooldown_exempt(u, a, allowed)
    \/ \E u \in Users : ApplyClick(u)
    \/ \E t \in IntakeTasks : ApplyLast(t)
    \/ \E u \in Users, text \in AgeInputs : FormSubmit(u, text)
    \/ \E t \in IntakeTasks : Under18Log(t)
    \/ \E t \in IntakeTasks : FormRespond(t)
    \/ \E t \in IntakeTasks : FormPost(t)
    \/ \E t \in IntakeTasks : FormMessageId(t)

\* the state after on_ready on a new database: empty tables, no message, no
\* handler
Init ==
    /\ now = 1
    /\ apps = <<>>
    /\ exempt = {}
    /\ forms = [u \in Users |-> 0]
    /\ reviewMsg = [id \in 1..MaxApps |-> NoMessage]
    /\ intake = [t \in IntakeTasks |-> IdleIntake]
    /\ nIntake = 0
    /\ review = [t \in ReviewTasks |-> IdleReview]
    /\ nReview = 0
    /\ auditLog = {} /\ noticeLog = {} /\ dmLog = {} /\ roleLog = {}
    /\ granted = {}
    /\ modPosts = 0
    /\ logChannel \in BOOLEAN
    /\ boot = Running /\ ready = Restored

SpecIntake == Init /\ [][IntakeStep]_vars

\* the apply button and the form with no exemption command given: the
\* exemption table stays as it started
ApplicantStep ==
    \/ Tick
    \/ \E u \in Users : ApplyClick(u)
    \/ \E t \in IntakeTasks : ApplyLast(t)
    \/ \E u \in Users, text \in AgeInputs : FormSubmit(u, text)
    \/ \E t \in IntakeTasks : Under18Log(t)
    \/ \E t \in IntakeTasks : FormRespond(t)
    \/ \E t \in IntakeTasks : FormPost(t)
    \/ \E t \in IntakeTasks : FormMessageId(t)

SpecApplicants == Init /\ [][ApplicantStep]_vars

\* ------------------------------------------------------ eligibility gate
\* The tables outlive the process: the bot may start on any table of earlier
\* applications, pending or decided, in the order of their creation.
Decided(row, status) ==
    IF status = "pending" THEN row
    ELSE [row EXCEPT !.status = status, !.moderator_id = 11,
                     !.mod_reason = IF status = "declined" THEN "r1" ELSE None]

OldRow == [user : Users, at : 1..MaxTime, status : {"pending", "approved", "declined"}]

OldStores ==
    UNION {
        {[i \in 1..n |-> Decided(NewRow(i, c[i].user, 18, c[i].at), c[i].status)] :
            c \in {c \in [1..n -> OldRow] :
                      \A i \in 1..n, j \in 1..n : i < j => c[i].at <= c[j].at}}
        : n \in 0..MaxOld}

GateInit ==
    /\ apps \in OldStores
    /\ now \in {t \in 1..MaxTime : \A i \in DOMAIN apps : apps[i].created_at <= t}
    /\ exempt \in SUBSET (Users \ COOLDOWN_BYPASS_IDS)
    /\ forms = [u \in Users |-> 0]
    /\ reviewMsg = [id \in 1..MaxApps |-> NoMessage]
    /\ intake = [t \in IntakeTasks |-> IdleIntake]
    /\ nIntake = 0
    /\ review = [t \in ReviewTasks |-> IdleReview]
    /\ nReview = 0
    /\ auditLog = {} /\ noticeLog = {} /\ dmLog = {} /\ roleLog = {}
    /\ granted = {}
    /\ modPosts = 0
    /\ logChannel = TRUE
    /\ boot = Running /\ ready = Restored

GateStep ==
    \/ Tick
    \/ \E u \in Users \ COOLDOWN_BYPASS_IDS, a \in ActionWords, allowed \in BOOLEAN :
            cooldown_exempt(u, a, allowed)
    \/ \E u \in Users : nIntake < MaxGate /\ ApplyClick(u)
    \/ \E t \in IntakeTasks : ApplyLast(t)

SpecGate == GateInit /\ [][GateStep]_vars

\* --------------------------------------------- startup: main, wait_for_db
\* create_db_pool: asyncpg.create_pool, then the test query `SELECT 1`; either
\* may raise, and the second leaves the global pool assigned
PoolOutcomes == {"ok", "create_failed", "test_failed"}

\* what the process does while the bot is not started
BootUnchanged ==
    UNCHANGED <<ready, now, storeVars, intakeVars, reviewMsg, review, nReview,
                effectVars>>

\* wait_for_db: one turn of `while retries < max_retries`: try create_db_pool()
\* and return True; on an exception retries += 1, and the sleep follows only
\* `if retries < max_retries`
wait_for_db ==
    /\ boot.pc = "wait_for_db" /\ boot.retries < max_retries
    /\ \E o \in PoolOutcomes :
        boot' =
            IF o = "ok"
            THEN [boot EXCEPT !.pc = "connected", !.attempts = @ + 1,
                              !.pool = TRUE, !.connected = TRUE]
            ELSE [boot EXCEPT !.attempts = @ + 1, !.retries = @ + 1,
                              !.pool = (@ \/ o = "test_failed"),
                              !.pc = IF boot.retries + 1 < max_retries
                                     THEN "sleep" ELSE "wait_for_db"]
    /\ BootUnchanged

\* await asyncio.sleep(delay)
wait_for_db_sleep ==
    /\ boot.pc = "sleep"
    /\ boot' = [boot EXCEPT !.pc = "wait_for_db", !.sleeps = @ + 1]
    /\ BootUnchanged

\* main with the retries used up, the bot started all the same
main_ignoring_wait_for_db ==
    /\ boot.pc = "wait_for_db" /\ ~(boot.retries < max_retries)
    /\ boot' = [boot EXCEPT !.pc = "running", !.started = TRUE]
    /\ BootUnchanged

\* wait_for_db returns False after the loop; main: `if not await
\* wait_for_db(): logger.critical(...); return`, and `finally` closes the pool
main_fatal ==
    /\ boot.pc = "wait_for_db" /\ ~(boot.retries < max_retries)
    /\ boot' = [boot EXCEPT !.pc = "fatal", !.pool = FALSE]
    /\ BootUnchanged

\* main: await asyncio.gather(bot.start(token), run_web_server()); when it
\* raises, `except` logs "Bot crashed" and `finally` closes the pool
main_start ==
    /\ boot.pc = "connected"
    /\ \E ok \in BOOLEAN :
        boot' = IF ok THEN [boot EXCEPT !.pc = "running", !.started = TRUE]
                ELSE [boot EXCEPT !.pc = "crashed", !.pool = FALSE]
    /\ BootUnchanged

\* ------------------------------------------------------ startup: on_ready
\* what on_ready leaves alone in every step
ReadyUnchanged ==
    UNCHANGED <<boot, now, storeVars, intakeVars, review, nReview, effectVars>>

IsPending(row) == row.status = "pending"

\* SELECT id, message_id FROM new_applications WHERE status = 'pending'
pending_apps(s) == SelectSeq(s, IsPending)

\* await init_db() (CREATE TABLE IF NOT EXISTS), then `async with
\* pool.acquire() as conn:` and the query of the pending applications; the
\* loop over them is inside the `async with` block, so conn stays checked out
on_ready ==
    /\ boot.started /\ ready.pc = "idle"
    /\ ready' = [ready EXCEPT !.pc = "loop", !.pending = pending_apps(apps),
                              !.k = 1, !.conn = TRUE]
    /\ UNCHANGED reviewMsg
    /\ ReadyUnchanged

\* channel.fetch_message: the message, discord.NotFound, discord.Forbidden or
\* another HTTPException
FetchOutcomes == {"ok", "NotFound", "Forbidden", "HTTPException"}

Skip(id, why) ==
    [ready EXCEPT !.restore[id] = why, !.k = @ + 1, !.pc = "loop"]

\* for app in pending_apps: if app['message_id']: channel =
\* bot.get_channel(MOD_REVIEW_CHANNEL_ID); if channel: message = await
\* channel.fetch_message(app['message_id']).  NotFound and Forbidden are
\* logged by the inner handlers, any other exception by `except Exception`,
\* and the loop goes on with the next application
on_ready_fetch_message ==
    /\ ready.pc = "loop" /\ ready.k <= Len(ready.pending)
    /\ LET app == ready.pending[ready.k] IN
        IF app.message_id = NULL THEN ready' = Skip(app.id, "no_message_id")
        ELSE IF ~ready.channel THEN ready' = Skip(app.id, "no_channel")
        ELSE \E o \in FetchOutcomes :
                /\ o = "ok" => reviewMsg[app.id].posted
                /\ ready' = IF o = "ok" THEN [ready EXCEPT !.pc = "edit"]
                            ELSE Skip(app.id, o)
    /\ UNCHANGED reviewMsg
    /\ ReadyUnchanged

\* view = ApplicationReviewView(app['id']); await message.edit(view=view);
\* bot.add_view(view, message_id=message.id) -- not reached when the edit raises
on_ready_edit ==
    /\ ready.pc = "edit"
    /\ LET app == ready.pending[ready.k] IN
        \E ok \in BOOLEAN :
            IF ok
            THEN /\ reviewMsg' = [reviewMsg EXCEPT ![app.id].controls = TRUE]
                 /\ ready' = Skip(app.id, "attached")
            ELSE /\ ready' = Skip(app.id, "edit_failed")
                 /\ UNCHANGED reviewMsg
    /\ ReadyUnchanged

\* after the loop the `async with` block ends and the connection goes back
\* to the pool; then bot.add_view(ApplicationButtonView())
on_ready_end ==
    /\ ready.pc = "loop" /\ ready.k > Len(ready.pending)
    /\ ready' = [ready EXCEPT !.pc = "done", !.conn = FALSE]
    /\ UNCHANGED reviewMsg
    /\ ReadyUnchanged

\* The process starts on the tables an earlier process left: pending rows
\* with or without a stored message_id, decided rows with one; a stored
\* message may have been deleted since.  No view is live before on_ready.
StoredRow ==
    {c \in [status : {"pending", "approved", "declined"}, ref : BOOLEAN] :
        c.status # "pending" => c.ref}

Stored(i, c) ==
    [Decided(NewRow(i, 2, 18, 1), c.status) EXCEPT
        !.message_id = IF c.ref THEN i ELSE NULL]

StartStores ==
    UNION {{[i \in 1..n |-> Stored(i, c[i])] : c \in [1..n -> StoredRow]}
           : n \in 0..MaxOld}

StoredMessage(row) ==
    [posted |-> TRUE, controls |-> FALSE,
     mark |-> CASE row.status = "approved" -> "APPROVED"
                [] row.status = "declined" -> "DECLINED"
                [] OTHER -> "none"]

StartInit ==
    /\ now = 2
    /\ apps \in StartStores
    /\ exempt = {}
    /\ forms = [u \in Users |-> 0]
    /\ \E alive \in SUBSET {i \in DOMAIN apps : apps[i].message_id # NULL} :
          reviewMsg = [id \in 1..MaxApps |->
                          IF id \in alive THEN StoredMessage(apps[id])
                          ELSE NoMessage]
    /\ intake = [t \in IntakeTasks |-> IdleIntake]
    /\ nIntake = 0
    /\ review = [t \in ReviewTasks |-> IdleReview]
    /\ nReview = 0
    /\ auditLog = {} /\ noticeLog = {} /\ dmLog = {} /\ roleLog = {}
    /\ granted = {}
    /\ modPosts = Cardinality({i \in DOMAIN apps : apps[i].message_id # NULL})
    /\ logChannel = TRUE
    /\ boot = Booting
    /\ \E channel \in BOOLEAN :
          ready = [Restored EXCEPT !.pc = "idle", !.channel = channel]

StartStep ==
    \/ wait_for_db
    \/ wait_for_db_sleep
    \/ main_fatal
    \/ main_start
    \/ on_ready
    \/ on_ready_fetch_message
    \/ on_ready_edit
    \/ on_ready_end

SpecStartup == StartInit /\ [][StartStep]_vars

\* ------------------------------------------------------------ whole system
Next == StartStep \/ IntakeStep \/ ReviewStep

Spec == Init /\ [][Next]_vars

\* The event loop runs every coroutine that can go on: each handler that is
\* not waiting for a person takes its next step.  Clicks, the submission and
\* the dismissal of the decline modal are choices of a person and are not
\* forced.
ReviewRun(t) ==
    \/ ApproveUpdate(t) \/ ApproveGet(t) \/ ApproveFetchUser(t)
    \/ ApproveEditView(t) \/ ApproveEditEmbed(t) \/ ApproveRole(t)
    \/ ApproveLog(t) \/ ApproveDM(t) \/ ApproveDMNotice(t) \/ ApproveAck(t)
    \/ ModalUpdate(t) \/ DeclineGet(t) \/ DeclineFetchUser(t)
    \/ DeclineEditView(t) \/ DeclineEditEmbed(t) \/ DeclineLog(t)
    \/ DeclineDM(t) \/ DeclineDMNotice(t) \/ DeclineAck(t)

SpecReviewFair == SpecReview /\ \A t \in ReviewTasks : WF_vars(ReviewRun(t))

\* ================================================================= claims
\* what a handler has sent or attempted, by the application it decided
AuditsOf(id) == {e \in auditLog : e.app = id}
DMsOf(id) == {d \in dmLog : d.app = id}
AuditsBy(t) == {e \in auditLog : e.task = t}
DMsBy(t) == {d \in dmLog : d.task = t}
NoticesBy(t) == {n \in noticeLog : n.task = t}
RoleCallsBy(t) == {r \in roleLog : r.task = t}
ActedOn(id) ==
    {e.task : e \in AuditsOf(id)} \cup {d.task : d \in DMsOf(id)}
        \cup {r.task : r \in {r \in roleLog : r.app = id}}

\* handler t is the only review handler that was ever started on its application
Alone(t) ==
    \A t2 \in ReviewTasks :
        t2 # t /\ review[t2].kind # "none" => review[t2].app # review[t].app

\* handler t has made its write of the status
Wrote(t) ==
    \/ review[t].kind = "approve" /\ review[t].pc \notin {"idle", "update"}
    \/ review[t].kind = "decline"
        /\ review[t].pc \notin {"idle", "wait", "abandoned", "modal_update"}

\* C1: once an application is approved or declined, no step changes its
\* status, its reviewer or its reason.
C1_DecidedNeverChanges ==
    [][\A i \in DOMAIN apps :
          apps[i].status \in {"approved", "declined"} =>
              /\ apps'[i].status = apps[i].status
              /\ apps'[i].moderator_id = apps[i].moderator_id
              /\ apps'[i].mod_reason = apps[i].mod_reason]_vars

\* C2: over the life of one application at most one decision audit entry and
\* at most one applicant DM are produced.
C2_AtMostOneAuditAndDM ==
    \A id \in DOMAIN apps :
        /\ Cardinality(AuditsOf(id)) <= 1
        /\ Cardinality(DMsOf(id)) <= 1

\* C5: of two decision handlers on the same application only the first
\* writes the status and runs side effects; the second does neither.
C5_OnlyFirstHandlerActs ==
    \A t1 \in ReviewTasks, t2 \in ReviewTasks :
        t1 # t2 /\ review[t1].kind # "none" /\ review[t2].kind # "none"
            /\ review[t1].app = review[t2].app
        => /\ ~(Wrote(t1) /\ Wrote(t2))
           /\ Cardinality(ActedOn(review[t1].app)) <= 1

\* C6: a decline whose reason prompt is abandoned writes nothing: the
\* abandoning step and the handler after it change neither the store, the
\* review message nor the logs, and while every handler of an application is
\* such a decline (waiting or abandoned) the application is pending, its
\* message keeps the buttons, and it has no audit entry and no DM.
C6_AbandonState ==
    \A id \in DOMAIN apps :
        (/\ \E t \in ReviewTasks : review[t].app = id /\ review[t].pc = "abandoned"
         /\ \A t \in ReviewTasks :
                review[t].app = id => review[t].pc \in {"wait", "abandoned"})
        => /\ apps[id].status = "pending"
           /\ apps[id].moderator_id = NULL /\ apps[id].mod_reason = None
           /\ reviewMsg[id].controls /\ reviewMsg[id].mark = "none"
           /\ AuditsOf(id) = {} /\ DMsOf(id) = {}

C6_AbandonStep ==
    \A t \in ReviewTasks :
        /\ (review[t].pc = "wait" /\ review'[t].pc = "abandoned")
              => UNCHANGED <<apps, exempt, reviewMsg, effectVars>>
        /\ review[t].pc = "abandoned" => review'[t] = review[t]

C6_AbandonedDeclineWritesNothing == []C6_AbandonState /\ [][C6_AbandonStep]_vars

\* C6 witness: a decline was abandoned and its application is still pending
C6_Witness ==
    \E t \in ReviewTasks :
        /\ review[t].kind = "decline" /\ review[t].pc = "abandoned"
        /\ apps[review[t].app].status = "pending"
        /\ reviewMsg[review[t].app].controls

C9_ApproveCompleted ==
    \A t \in ReviewTasks :
        (review[t].kind = "approve" /\ review[t].pc = "done" /\ Alone(t)
            /\ logChannel)
        => /\ apps[review[t].app].status = "approved"
           /\ apps[review[t].app].moderator_id = review[t].mod
           /\ Cardinality(RoleCallsBy(t)) = 1
           /\ Cardinality(AuditsBy(t)) = 1
           /\ \A e \in AuditsBy(t) :
                 e.kind = "approved" /\ e.warning = ~review[t].role_assigned
           /\ Cardinality(DMsBy(t)) = 1

\* C10: when the only handler of an application is a decline with a
\* non-empty reason that has completed (and the logs channel resolves), the
\* record is declined with that reviewer and reason, exactly one audit entry
\* and one DM attempt carry the reason, and a failed DM is reported to the
\* logs channel.
C10_DeclineCompleted ==
    \A t \in ReviewTasks :
        (review[t].kind = "decline" /\ review[t].pc = "done" /\ Alone(t)
            /\ Truthy(review[t].reason) /\ logChannel)
        => /\ apps[review[t].app].status = "declined"
           /\ apps[review[t].app].moderator_id = review[t].mod
           /\ apps[review[t].app].mod_reason = review[t].reason
           /\ Cardinality(AuditsBy(t)) = 1
           /\ \A e \in AuditsBy(t) : e.reason = review[t].reason
           /\ Cardinality(DMsBy(t)) = 1
           /\ \A d \in DMsBy(t) :
                 /\ d.reason = review[t].reason
                 /\ ~d.delivered => NoticesBy(t) # {}

\* ------------------------------------------------------- claims of intake
\* the rows of user u, and the most recent of them by created_at
RowsOf(u) == {i \in DOMAIN apps : apps[i].user_id = u}
MostRecentOf(u) ==
    {i \in RowsOf(u) : \A j \in RowsOf(u) : apps[j].created_at <= apps[i].created_at}

\* the step that starts the handler of an apply click
ApplyStarts == nIntake' = nIntake + 1 /\ intake'[nIntake + 1].kind = "apply"

\* C3: an applicant outside the bypass list and the exemption set goes to the
\* last-application lookup, and that lookup denies the attempt exactly when
\* the most recent application (by created_at, whatever its status) is less
\* than the cooldown old; at exactly the cooldown, and without any earlier
\* application, the attempt is allowed.
C3_GateStep ==
    /\ ApplyStarts =>
          LET u == intake'[nIntake + 1].user IN
          (u \notin COOLDOWN_BYPASS_IDS /\ u \notin exempt)
              => intake'[nIntake + 1].pc = "last" /\ forms' = forms
    /\ \A t \in IntakeTasks :
          (intake[t].kind = "apply" /\ intake[t].pc = "last"
              /\ intake'[t].pc = "done")
          => LET u == intake[t].user IN
             /\ RowsOf(u) = {} => intake'[t].reply = "modal"
             /\ \A i \in MostRecentOf(u) :
                   IF now - apps[i].last_application < APPLICATION_COOLDOWN
                   THEN intake'[t].reply = "cooldown" /\ forms' = forms
                   ELSE /\ intake'[t].reply = "modal"
                        /\ forms' = [forms EXCEPT ![u] = @ + 1]

C3_CooldownGate == [][C3_GateStep]_vars

\* C3 witness: a non-exempt applicant whose most recent application is
\* exactly the cooldown old, and who has an older one too, was given the form
C3_Witness ==
    \E t \in IntakeTasks :
        /\ intake[t].kind = "apply" /\ intake[t].pc = "done"
        /\ intake[t].reply = "modal"
        /\ intake[t].user \notin COOLDOWN_BYPASS_IDS /\ intake[t].user \notin exempt
        /\ \E i \in MostRecentOf(intake[t].user) :
              /\ now - apps[i].last_application = APPLICATION_COOLDOWN
              /\ apps[i].status # "pending"
              /\ \E j \in RowsOf(intake[t].user) :
                    apps[j].created_at < apps[i].created_at
        /\ forms[intake[t].user] > 0

\* C4: an applicant in the bypass list or in the exemption set is given the
\* form at the click, whatever the applications on record.
C4_ExemptStep ==
    ApplyStarts =>
        LET u == intake'[nIntake + 1].user IN
        (u \in COOLDOWN_BYPASS_IDS \/ u \in exempt)
            => /\ intake'[nIntake + 1].pc = "done"
               /\ intake'[nIntake + 1].reply = "modal"
               /\ forms' = [forms EXCEPT ![u] = @ + 1]

C4_ExemptAlwaysAllowed == [][C4_ExemptStep]_vars

\* C4 witness: an applicant of the exemption set (not of the bypass list) with
\* an application younger than the cooldown was given the form
C4_Witness ==
    \E t \in IntakeTasks :
        /\ intake[t].kind = "apply" /\ intake[t].pc = "done"
        /\ intake[t].reply = "modal"
        /\ intake[t].user \in exempt /\ intake[t].user \notin COOLDOWN_BYPASS_IDS
        /\ \E i \in MostRecentOf(intake[t].user) :
              now - apps[i].last_application < APPLICATION_COOLDOWN

\* the form handlers that took the under-18 path
Under18Done(t) ==
    intake[t].kind = "form" /\ intake[t].reply = "under18" /\ intake[t].pc = "done"

\* C8 as stated: every under-18 submission ends with exactly one
\* automatic-rejection audit entry and one decline message.
C8_Under18ExactlyOneAudit ==
    \A t \in IntakeTasks :
        Under18Done(t) =>
            /\ Cardinality(AuditsBy(IntakeId(t))) = 1
            /\ intake[t].responses = 1

\* C8 amended: no record ever holds an age below 18; the steps of an under-18
\* submission change neither the table nor the review channel; the submitter
\* gets the decline message as the one reply; and the logs channel gets the
\* automatic-rejection entry exactly once when it resolves and the send
\* succeeds, and not at all otherwise (a failed send makes the handler try a
\* second reply, which the interaction refuses).
C8_Under18State ==
    /\ \A i \in DOMAIN apps : apps[i].age >= 18
    /\ \A t \in IntakeTasks :
          Under18Done(t) =>
              /\ intake[t].responses \in {1, 2}
              /\ intake[t].app = 0
              /\ \A e \in AuditsBy(IntakeId(t)) :
                    /\ e.kind = "declined" /\ e.mod = BotUser
                    /\ e.reason = AutoReason /\ e.user = intake[t].user
              /\ IF logChannel /\ intake[t].responses = 1
                 THEN Cardinality(AuditsBy(IntakeId(t))) = 1
                 ELSE AuditsBy(IntakeId(t)) = {}

C8_Under18Step ==
    \A t \in IntakeTasks :
        (intake'[t] # intake[t] /\ intake'[t].reply = "under18")
            => UNCHANGED <<apps, reviewMsg, modPosts>>

C8_Under18Amended == []C8_Under18State /\ [][C8_Under18Step]_vars

\* C8 witness: an under-18 submission has ended with its audit entry
C8_Witness ==
    \E t \in IntakeTasks :
        /\ Under18Done(t) /\ intake[t].responses = 1
        /\ Cardinality(AuditsBy(IntakeId(t))) = 1

\* ------------------------------------------- claims of the approve handler
\* the role-grant calls of handler t that did not add the role
FailedRoleCallsBy(t) == {r \in RoleCallsBy(t) : r.outcome # "added"}

\* C11: when the role grant of an approve failed and the handler has completed
\* (the only handler of its application, the logs channel resolving), the
\* status is approved, the approval audit entry was emitted with the warning,
\* the DM was attempted, and the acknowledgment reports the failed role.
C11_RoleFailureDoesNotAbort ==
    \A t \in ReviewTasks :
        (/\ review[t].kind = "approve" /\ review[t].pc = "done"
         /\ Alone(t) /\ logChannel
         /\ FailedRoleCallsBy(t) # {})
        => /\ apps[review[t].app].status = "approved"
           /\ \E e \in AuditsBy(t) : e.kind = "approved" /\ e.warning
           /\ Cardinality(DMsBy(t)) = 1
           /\ review[t].reply = "approved_role_failed"

\* C12: after the decision is persisted, no step of the review-message edit,
\* the role grant or the DM ends the handler with the error reply: the rest
\* of the transition is still ahead of it.
C12_SideEffectFailureNeverAborts ==
    [][\A t \in ReviewTasks :
          (Wrote(t) /\ review[t].pc \in {"edit_view", "edit_embed", "role", "dm"})
          => ~(review'[t].pc = "done" /\ review'[t].reply = "error")]_vars

\* C13: every approve handler that has written status approved and has ended
\* ended with the acknowledgment "approved" plus the role-grant outcome.
C13_ApproveAlwaysAcknowledged ==
    \A t \in ReviewTasks :
        (review[t].kind = "approve" /\ review[t].pc = "done" /\ Wrote(t))
        => review[t].reply \in {"approved_role_assigned", "approved_role_failed"}

\* C14: in the approve handler the acknowledgment (defer) comes before every
\* store write and every external call: a handler that is not acknowledged has
\* no effect on record, the acknowledging step changes nothing but the
\* handler, and every step that changes the table, a review message or the
\* logs is the step of a handler acknowledged before it.
C14_State ==
    \A t \in ReviewTasks :
        review[t].kind = "none"
        => /\ AuditsBy(t) = {} /\ DMsBy(t) = {}
           /\ NoticesBy(t) = {} /\ RoleCallsBy(t) = {}

C14_Step ==
    /\ \A t \in ReviewTasks :
          (review[t].kind = "none" /\ review'[t].kind = "approve")
          => /\ review'[t].pc = "update"
             /\ UNCHANGED <<apps, exempt, reviewMsg, effectVars>>
    /\ (<<apps, reviewMsg, effectVars>>' # <<apps, reviewMsg, effectVars>>)
          => \E t \in ReviewTasks :
                review[t].kind # "none" /\ review'[t] # review[t]

C14_AckBeforeEffects == []C14_State /\ [][C14_Step]_vars

\* C14 witness: an approve handler has run to its acknowledgment after its
\* store write, role grant, audit entry and DM
C14_Witness ==
    \E t \in ReviewTasks :
        /\ review[t].kind = "approve" /\ review[t].pc = "done"
        /\ review[t].reply = "approved_role_assigned"
        /\ apps[review[t].app].status = "approved"
        /\ AuditsBy(t) # {} /\ DMsBy(t) # {} /\ RoleCallsBy(t) # {}

C16_State ==
    /\ boot.started => boot.connected /\ boot.pool
    /\ ready.pc # "idle" => boot.started /\ boot.connected
    /\ boot.attempts <= max_retries
    /\ ~boot.connected => boot.attempts = boot.retries
    /\ boot.sleeps = IF boot.pc = "wait_for_db" /\ boot.retries < max_retries
                     THEN boot.attempts
                     ELSE boot.attempts - 1
    /\ boot.pc = "fatal"
          => /\ ~boot.started /\ ~boot.connected /\ ~boot.pool
             /\ boot.attempts = max_retries
             /\ ready.pc = "idle"

C16_Step ==
    /\ (boot'.started /\ ~boot.started) => boot.connected /\ boot.pc = "connected"
    /\ boot.pc \in {"fatal", "crashed"} => boot' = boot /\ ready' = ready

C16_NoServingWithoutStore == []C16_State /\ [][C16_Step]_vars

\* C16 witness: every attempt failed and main ended without starting the bot
C16_Witness ==
    /\ boot.pc = "fatal" /\ ~boot.started
    /\ boot.attempts = max_retries /\ boot.sleeps = max_retries - 1

\* C17: when on_ready has ended, every pending application with a stored
\* message_id whose message was fetched has live controls, no decided
\* application has them, and every pending application had its turn in the
\* loop whatever happened to the ones before it.
C17_ReattachedWhenFetched ==
    ready.pc = "done" =>
        \A id \in DOMAIN apps :
            /\ (/\ apps[id].status = "pending" /\ apps[id].message_id # NULL
                /\ ready.restore[id] \in {"attached", "edit_failed"})
                  => reviewMsg[id].controls
            /\ apps[id].status # "pending" => ~reviewMsg[id].controls
            /\ apps[id].status = "pending" => ready.restore[id] # "none"

\* ------------------------------------------- claims of the decline prompt
\* C18: every decline handler that was started ends.
C18_DeclineTerminates ==
    \A t \in ReviewTasks :
        (review[t].kind = "decline") ~> (review[t].pc = "done")

\* --------------------------------------------------- claims of the gate
\* C19: every apply attempt is decided on the exemption table and the
\* application table as they are at its own steps, whatever earlier attempts
\* of the same applicant got: at the click the applicant is given the form
\* exactly when in the bypass list or in the table now, and the lookup denies
\* exactly when the most recent application now is younger than the cooldown.
C19_Step ==
    /\ ApplyStarts =>
          LET u == intake'[nIntake + 1].user IN
          IF u \in COOLDOWN_BYPASS_IDS \/ u \in exempt
          THEN /\ intake'[nIntake + 1].pc = "done"
               /\ intake'[nIntake + 1].reply = "modal"
          ELSE /\ intake'[nIntake + 1].pc = "last"
               /\ intake'[nIntake + 1].reply = "none"
    /\ \A t \in IntakeTasks :
          (intake[t].kind = "apply" /\ intake[t].pc = "last"
              /\ intake'[t].pc = "done")
          => (intake'[t].reply = "cooldown"
                <=> \E i \in MostRecentOf(intake[t].user) :
                       now - apps[i].last_application < APPLICATION_COOLDOWN)

C19_GateReadsStoreEachTime == [][C19_Step]_vars

\* C19 witness: an applicant was given the form while exempt, the exemption
\* was removed, and the next attempt was denied for the cooldown (the most
\* recent application is younger than the cooldown even now, so the first
\* attempt can only have passed by the exemption)
C19_Witness ==
    \E t1 \in IntakeTasks, t2 \in IntakeTasks :
        /\ t1 < t2
        /\ intake[t1].kind = "apply" /\ intake[t2].kind = "apply"
        /\ intake[t1].user = intake[t2].user
        /\ intake[t1].reply = "modal" /\ intake[t2].reply = "cooldown"
        /\ intake[t1].user \notin exempt
        /\ \E i \in MostRecentOf(intake[t1].user) :
              now - apps[i].last_application < APPLICATION_COOLDOWN

\* C20: the gate does not look at the pending count: the lookup of an
\* applicant who has a pending application and whose most recent application
\* is at least the cooldown old gives the form, and a new row always enters
\* as pending beside the rows already there.
C20_Step ==
    /\ \A t \in IntakeTasks :
          (/\ intake[t].kind = "apply" /\ intake[t].pc = "last"
           /\ intake'[t].pc = "done"
           /\ \E i \in RowsOf(intake[t].user) : apps[i].status = "pending"
           /\ \A i \in MostRecentOf(intake[t].user) :
                 now - apps[i].last_application >= APPLICATION_COOLDOWN)
          => /\ intake'[t].reply = "modal"
             /\ forms' = [forms EXCEPT ![intake[t].user] = @ + 1]
    /\ Len(apps') > Len(apps)
          => /\ Len(apps') = Len(apps) + 1
             /\ apps'[Len(apps')].status = "pending"
             /\ \A i \in DOMAIN apps : apps'[i] = apps[i]

C20_PendingCountNotGated == [][C20_Step]_vars

\* C20 witness: an applicant outside the bypass list and the exemption table
\* has two pending applications, the second created at least the cooldown
\* after the first
C20_Witness ==
    \E u \in Users \ COOLDOWN_BYPASS_IDS :
        /\ u \notin exempt
        /\ \E i \in RowsOf(u), j \in RowsOf(u) :
              /\ i < j
              /\ apps[i].status = "pending" /\ apps[j].status = "pending"
              /\ apps[j].created_at - apps[i].created_at >= APPLICATION_COOLDOWN

\* ------------------------------------------------- claims of the form
\* the step in which the form handler of slot nIntake + 1 starts
FormStarts == nIntake' = nIntake + 1 /\ intake'[nIntake + 1].kind = "form"

\* C21: a form submitted with an age that int() does not accept changes no
\* state: the submitting step leaves both tables, the review channel and the
\* logs as they were, and the handler has ended with one reply, the request
\* for a valid number, no application and no audit entry.
C21_State ==
    \A t \in IntakeTasks :
        (intake[t].kind = "form" /\ ~IntOk(intake[t].text))
        => /\ intake[t].pc = "done"
           /\ intake[t].reply = "invalid_age"
           /\ intake[t].responses = 1
           /\ intake[t].app = 0
           /\ AuditsBy(IntakeId(t)) = {}

C21_Step ==
    (FormStarts /\ ~IntOk(intake'[nIntake + 1].text))
        => UNCHANGED <<apps, exempt, reviewMsg, modPosts, effectVars>>

C21_InvalidAgeNoStateChange == []C21_State /\ [][C21_Step]_vars

\* C21 witness: an applicant with an application on record has submitted a
\* form with a non-numeric age and got the request for a valid number
C21_Witness ==
    \E t \in IntakeTasks :
        /\ intake[t].kind = "form" /\ ~IntOk(intake[t].text)
        /\ intake[t].reply = "invalid_age" /\ intake[t].responses = 1
        /\ RowsOf(intake[t].user) # {}

\* ------------------------------------------- claims of the missing record
\* handler t was started on an application id that has no row
Orphaned(t) == review[t].kind # "none" /\ ~HasApplication(apps, review[t].app)

\* C22: a decision (an approve click, or a decline with a reason) on an
\* application id without a row ends with the not-found reply and has no
\* other effect: its steps change neither the table, a review message nor the
\* logs, it makes no role grant, audit entry or DM, and once ended it does
\* nothing more.
C22_State ==
    \A t \in ReviewTasks :
        Orphaned(t)
        => /\ AuditsBy(t) = {} /\ DMsBy(t) = {}
           /\ NoticesBy(t) = {} /\ RoleCallsBy(t) = {}
           /\ reviewMsg[review[t].app] = PostedMessage
           /\ (review[t].pc = "done"
                 /\ (review[t].kind = "approve" \/ Truthy(review[t].reason)))
              => review[t].reply = "not_found"

C22_Step ==
    \A t \in ReviewTasks :
        /\ (Orphaned(t) /\ review'[t] # review[t])
              => UNCHANGED <<apps, exempt, reviewMsg, effectVars>>
        /\ (Orphaned(t) /\ review[t].pc = "done") => review'[t] = review[t]

C22_MissingRecordNoEffect == []C22_State /\ [][C22_Step]_vars

\* C22 witness: an approve and a decline with a reason on the missing record
\* have both ended with the not-found reply
C22_Witness ==
    \E t1 \in ReviewTasks, t2 \in ReviewTasks :
        /\ Orphaned(t1) /\ Orphaned(t2)
        /\ review[t1].kind = "approve" /\ review[t1].reply = "not_found"
        /\ review[t2].kind = "decline" /\ review[t2].reply = "not_found"
        /\ Truthy(review[t2].reason)

\* --------------------------------------------- claims of the exemption set
\* C23: the exemption table is a set with idempotent add and remove: on the
\* table as it is and on every table of the users, adding a member or
\* removing a non-member changes nothing, add makes a member and remove a
\* non-member, remove after add leaves a non-member, neither changes the
\* membership of another user; and every command step changes the membership
\* of exactly one user.
C23_State ==
    \A ex \in {exempt} \cup SUBSET Users : \A u \in Users :
        /\ u \in ex => add_cooldown_exempt(ex, u) = ex
        /\ u \notin ex => remove_cooldown_exempt(ex, u) = ex
        /\ u \in add_cooldown_exempt(ex, u)
        /\ u \notin remove_cooldown_exempt(ex, u)
        /\ add_cooldown_exempt(add_cooldown_exempt(ex, u), u)
              = add_cooldown_exempt(ex, u)
        /\ remove_cooldown_exempt(remove_cooldown_exempt(ex, u), u)
              = remove_cooldown_exempt(ex, u)
        /\ u \notin remove_cooldown_exempt(add_cooldown_exempt(ex, u), u)
        /\ \A v \in Users \ {u} :
              /\ v \in add_cooldown_exempt(ex, u) <=> v \in ex
              /\ v \in remove_cooldown_exempt(ex, u) <=> v \in ex

C23_Step ==
    exempt' # exempt
        => \E u \in Users :
              /\ (u \in exempt') # (u \in exempt)
              /\ \A v \in Users \ {u} : (v \in exempt') = (v \in exempt)

C23_ExemptionSetSemantics == []C23_State /\ [][C23_Step]_vars

\* C23 witness: the exemption of an applicant was removed by the command
\* after the applicant had been given the form through it
C23_Witness ==
    /\ exempt = {}
    /\ \E t \in IntakeTasks :
          /\ intake[t].kind = "apply" /\ intake[t].reply = "modal"
          /\ intake[t].user \notin COOLDOWN_BYPASS_IDS
          /\ \E i \in MostRecentOf(intake[t].user) :
                now - apps[i].last_application < APPLICATION_COOLDOWN

\* ------------------------------------------- claims of the approve order
\* the effects of an approve handler come in the order status write, role
\* grant, audit entry, DM
C24_OrderState ==
    \A t \in ReviewTasks :
        review[t].kind = "approve"
        => /\ RoleCallsBy(t) # {} => Wrote(t)
           /\ AuditsBy(t) # {} => RoleCallsBy(t) # {}
           /\ DMsBy(t) # {}
                 => RoleCallsBy(t) # {} /\ (logChannel => AuditsBy(t) # {})

\* the step in which approve handler t removes the buttons of its message
RemovesControls(t) ==
    /\ review[t].kind = "approve"
    /\ review[t].pc = "edit_view" /\ review'[t].pc = "edit_embed"

\* the step in which approve handler t calls assign_allowlisted_role
GrantsRole(t) ==
    /\ review[t].kind = "approve"
    /\ review[t].pc = "role" /\ review'[t].pc = "log"

\* C24 as stated: the effects come in the order status write, role grant,
\* audit entry, DM, and the edit that removes the buttons comes after them.
C24_EffectsThenEdit ==
    /\ []C24_OrderState
    /\ [][\A t \in ReviewTasks :
             RemovesControls(t) => RoleCallsBy(t) # {} /\ DMsBy(t) # {}]_vars

\* C24 amended: the effects come in the order status write, role grant, audit
\* entry, DM; the edit that removes the buttons comes after the status write
\* and before the role grant, the audit entry and the DM.
C24_AmendedStep ==
    \A t \in ReviewTasks :
        /\ RemovesControls(t)
              => /\ Wrote(t) /\ apps[review[t].app].status # "pending"
                 /\ RoleCallsBy(t) = {} /\ AuditsBy(t) = {} /\ DMsBy(t) = {}
                 /\ ~reviewMsg'[review[t].app].controls
        /\ GrantsRole(t) => ~reviewMsg[review[t].app].controls

C24_EditBeforeRoleGrant == []C24_OrderState /\ [][C24_AmendedStep]_vars

\* C24 witness: an approve handler has ended after its role grant, audit
\* entry and DM, with the buttons of its message removed
C24_Witness ==
    \E t \in ReviewTasks :
        /\ review[t].kind = "approve" /\ review[t].pc = "done"
        /\ review[t].reply = "approved_role_failed"
        /\ RoleCallsBy(t) # {} /\ AuditsBy(t) # {} /\ DMsBy(t) # {}
        /\ ~reviewMsg[review[t].app].controls
        /\ reviewMsg[review[t].app].mark = "APPROVED"

\* ------------------------------------------------ claims of the pool
\* C25: no pooled connection is held while a platform call is awaited: when
\* on_ready awaits message.edit (after channel.fetch_message) it holds none.
\* (Every handler's store operation is one step that takes and returns its
\* connection; only on_ready keeps one over several steps.)
C25_NoConnectionAcrossPlatformCall ==
    ready.pc = "edit" => ~ready.conn

\* ------------------------------------------- claims of concurrent intake
\* C26: an applicant who is neither on the bypass list nor in the exemption
\* table has no two applications created less than APPLICATION_COOLDOWN apart.
C26_RecordsCooldownApart ==
    \A u \in Users \ COOLDOWN_BYPASS_IDS :
        u \notin exempt =>
            \A i \in RowsOf(u), j \in RowsOf(u) :
                i < j => apps[j].created_at - apps[i].created_at
                             >= APPLICATION_COOLDOWN

\* C27: an application for which the role was granted has the status approved.
C27_GrantedImpliesApproved ==
    \A r \in roleLog :
        r.outcome = "added" => get_application(apps, r.app).status = "approved"

\* C28: no interaction of the apply button or of the form is given more than
\* one initial response.
C28_AtMostOneInitialResponse ==
    \A t \in IntakeTasks : intake[t].responses <= 1

====
